---- MODULE Spec2Model ----
(***************************************************************************)
(* TestRail Prometheus exporter: the collection cycle expose_test_reports, *)
(* the gauges it publishes, the scheduler around it and the scrape thread. *)
(* JSON objects are functions from field names to values, JSON arrays are  *)
(* sequences, a gauge is the set of its samples [labels, value].           *)
(***************************************************************************)
EXTENDS Integers, Sequences, FiniteSets, TLC

\* ------------------------------------------------------------------ bounds
\* Number of collection cycles of one process run (the initial one included).
MaxCycles == 3
\* Longest status list of a custom status document.
MaxStatuses == 2

\* ------------------------------------------------------- program constants
PROJECT_ID == 1
LOOKBACK_DAYS == 7
UNTESTED_STATUS == 10

SecondsPerDay == 24 * 3600
\* SCHEDULE_CRON default "0,12": twelve hours between two triggers.
TriggerInterval == 12 * 3600
\* Wall clock when the process starts.
StartTime == 1700000000 + 2 * 3600

\* ------------------------------------------------------------ pure helpers
\* dict.get(key, default)
Get(obj, key, default) == IF key \in DOMAIN obj THEN obj[key] ELSE default

\* format_timestamp: epoch seconds -> "%Y-%m-%d %H:%M:%S" in UTC, kept as
\* the tuple <<Y, m, d, H, M, S>> of the fields of that string.
format_timestamp(timestamp) ==
    LET days == timestamp \div SecondsPerDay
        secs == timestamp % SecondsPerDay
        z    == days + 719468
        era  == z \div 146097
        doe  == z - era * 146097
        yoe  == (doe - doe \div 1460 + doe \div 36524 - doe \div 146096) \div 365
        doy  == doe - (365 * yoe + yoe \div 4 - yoe \div 100)
        mp   == (5 * doy + 2) \div 153
        d    == doy - (153 * mp + 2) \div 5 + 1
        m    == IF mp < 10 THEN mp + 3 ELSE mp - 9
        y    == yoe + era * 400 + (IF m <= 2 THEN 1 ELSE 0)
    IN  <<y, m, d, secs \div 3600, (secs % 3600) \div 60, secs % 60>>

\* ------------------------------------------------------------------ gauges
\* A string of which parts are taken is the sequence of its pieces, such as
\* <<"custom_status5", "_count">>; a series name is f"test_run_{metric}_count".
CountSeries(metric_name) == <<"test_run_">> \o metric_name \o <<"_count">>
test_run_info           == <<"testrail_run_info">>
test_run_passed_count   == CountSeries(<<"passed">>)
test_run_failed_count   == CountSeries(<<"failed">>)
test_run_retest_count   == CountSeries(<<"retest">>)
test_run_untested_count == CountSeries(<<"untested">>)
test_run_blocked_count  == CountSeries(<<"blocked">>)
test_result_info        == <<"testrail_test_result">>

StandardCountSeries ==
    {test_run_passed_count, test_run_failed_count, test_run_retest_count,
     test_run_untested_count, test_run_blocked_count}
StandardSeries == {test_run_info, test_result_info} \cup StandardCountSeries

\* The Run field each standard count gauge is set from.
CountField(series) ==
    CASE series = test_run_passed_count   -> "passed_count"
      [] series = test_run_failed_count   -> "failed_count"
      [] series = test_run_retest_count   -> "retest_count"
      [] series = test_run_untested_count -> "untested_count"
      [] series = test_run_blocked_count  -> "blocked_count"

\* ------------------------------------------------- custom status registry
\* The pieces of the field names that occur, cut at every "_count".
Pieces(field_name) ==
    CASE field_name = "custom_status5_count" -> <<"custom_status5", "_count">>
      [] field_name = "custom_status7_count" -> <<"custom_status7", "_count">>
      [] field_name = "re_counted_count"     -> <<"re", "_count", "ed", "_count">>
      [] OTHER                               -> <<field_name>>

\* str.replace(old, ''): every occurrence of the piece goes.
Replace(pieces, old) == SelectSeq(pieces, LAMBDA piece : piece # old)

\* json null, and the None of dict.get
None == 0 - 1

\* The return value {} of load_custom_status_config.
NoCustomStatuses == [f \in {} |-> [metric_name |-> <<>>, description |-> <<>>]]

\* lines 75-80: the definition kept for one entry of the document.
StatusDefinition(status, field_name) ==
    [status_id |-> Get(status, "status_id", None),
     field_name |-> field_name,
     metric_name |-> Get(status, "metric_name", Replace(Pieces(field_name), "_count")),
     description |-> Get(status, "description",
                         <<"Number of ">>
                             \o Get(status, "metric_name", Pieces(field_name))
                             \o <<" tests">>)]

\* line 75: status_map[field_name] = {...}
Stored(status_map, field_name, definition) ==
    (field_name :> definition) @@ status_map

\* Mutant of Named: every entry counts as named.
NamedWhatever(field_name) == TRUE

\* line 71: `if not field_name` fails (the name is neither missing, null
\* nor empty)
Named(field_name) == field_name # ""

\* lines 68-80: the loop over the entries of the document.
RECURSIVE StatusMap(_, _)
StatusMap(custom_statuses, status_map) ==
    IF custom_statuses = <<>> THEN status_map
    ELSE LET status     == Head(custom_statuses)
             field_name == Get(status, "field_name", "")
         IN  StatusMap(Tail(custom_statuses),
                       IF Named(field_name)
                       THEN Stored(status_map, field_name,
                                   StatusDefinition(status, field_name))
                       ELSE status_map)

\* The file at config_path: none, one json.load cannot parse, or a document
\* with its list of entries (no "custom_statuses" key reads as the empty
\* list, line 62).
AbsentSource     == [kind |-> "absent", custom_statuses |-> <<>>]
MalformedSource  == [kind |-> "malformed", custom_statuses |-> <<>>]
Document(custom_statuses) == [kind |-> "json", custom_statuses |-> custom_statuses]

\* load_custom_status_config: every exception is caught (lines 85-90).
load_custom_status_config(source) ==
    CASE source.kind = "absent"    -> NoCustomStatuses
      [] source.kind = "malformed" -> NoCustomStatuses
      [] OTHER ->
            IF source.custom_statuses = <<>> THEN NoCustomStatuses
            ELSE StatusMap(source.custom_statuses, NoCustomStatuses)

\* create_custom_status_gauges: field_name -> series.
create_custom_status_gauges(custom_status_config) ==
    [f \in DOMAIN custom_status_config |->
        CountSeries(custom_status_config[f].metric_name)]

\* Gauge(...) at line 61 of gauges.py registers the series in the default
\* registry, which raises ValueError for a name it already holds: a
\* standard series, or a custom series created just before.
Duplicated(custom_status_config) ==
    \/ \E f \in DOMAIN custom_status_config :
          CountSeries(custom_status_config[f].metric_name) \in StandardSeries
    \/ \E f, g \in DOMAIN custom_status_config :
          /\ f # g
          /\ custom_status_config[f].metric_name
                = custom_status_config[g].metric_name

\* The documents the process is started with.
SkippedEntry ==
    [status_id |-> 5, field_name |-> "custom_status5_count",
     metric_name |-> <<"skipped">>,
     description |-> <<"Number of skipped tests">>]
StartupSources == {AbsentSource, Document(<<SkippedEntry>>)}

\* Entries a document may hold: each key present or not.
StatusEntries ==
    { [k \in keys |->
          CASE k = "status_id"   -> 5
            [] k = "field_name"  -> field_name
            [] k = "metric_name" -> metric_name
            [] k = "description" -> <<"Skipped tests">>] :
        keys \in {K \cup {"status_id"} :
                    K \in SUBSET {"field_name", "metric_name", "description"}},
        field_name \in {"", "custom_status5_count", "re_counted_count"},
        metric_name \in {<<"skipped">>, <<"passed">>} }
ConfigSources ==
    {AbsentSource, MalformedSource}
        \cup {Document(list) :
                list \in UNION {[1..n -> StatusEntries] : n \in 0..MaxStatuses}}

\* Gauge.clear(): no sample left.
EmptyGauge == {}


\* labels of testrail_run_info (lines 130-133)
RunInfoLabels(runx, created_datex) ==
    [run_id |-> runx.id, created_date |-> created_datex, name |-> runx.name,
     passed |-> runx.passed_count, failed |-> runx.failed_count,
     retest |-> runx.retest_count, untested |-> runx.untested_count,
     blocked |-> runx.blocked_count]
\* labels of the standard and custom count gauges
RunLabels(runx, created_datex) ==
    [run_id |-> runx.id, created_date |-> created_datex]
\* labels of testrail_test_result (lines 180-189)
ResultLabels(run_id, titles, result) ==
    [run_id |-> run_id, test_id |-> result.test_id,
     title |-> Get(titles, result.test_id, "Unknown Title"),
     status_id |-> result.status_id,
     created_date |-> format_timestamp(result.created_on),
     comment |-> result.comment]

\* ------------------------------------------------------------- remote data
\* What the TestRail API may answer.  Run ids are primary keys of the
\* remote service: one listing never holds the same id twice.
FirstRunCreated  == StartTime - 2 * 3600
SecondRunCreated == FirstRunCreated - 8 * SecondsPerDay

RunObject(id, name, created_on, passed, failed, retest, untested, blocked) ==
    [id |-> id, name |-> name, created_on |-> created_on,
     passed_count |-> passed, failed_count |-> failed, retest_count |-> retest,
     untested_count |-> untested, blocked_count |-> blocked]

SmokeRun   == RunObject(1, "smoke", FirstRunCreated, 4, 1, 0, 2, 0)
NightlyRun == RunObject(2, "nightly", SecondRunCreated, 7, 0, 1, 0, 3)

RunPayloads ==
    { \* completed, with a configured and a never-configured custom field
      SmokeRun @@ [is_completed |-> TRUE, custom_status5_count |-> 3,
                   custom_status7_count |-> 5],
      \* still open
      SmokeRun @@ [is_completed |-> FALSE, custom_status5_count |-> 1],
      \* completed, no custom field in the payload
      NightlyRun @@ [is_completed |-> TRUE],
      \* no completion flag at all
      NightlyRun }

RunListings ==
    {<<>>} \cup {<<a>> : a \in RunPayloads}
           \cup UNION {{<<a, b>> : b \in {r \in RunPayloads : r.id # a.id}} :
                        a \in RunPayloads}

TestCase(id, title) == [id |-> id, title |-> title]
TestListing(run_id) ==
    IF run_id = 1
    THEN <<TestCase(7, "Login test"), TestCase(8, "Logout test")>>
    ELSE <<TestCase(9, "Search test")>>

Result(test_id, status_id, created_on, comment) ==
    [test_id |-> test_id, status_id |-> status_id, created_on |-> created_on,
     comment |-> comment]
ResultListings(run_id) ==
    IF run_id = 1
    THEN { <<Result(7, 5, FirstRunCreated + 60, "ok"),
             Result(8, 10, FirstRunCreated + 61, ""),
             Result(4, 1, FirstRunCreated + 62, "added later")>>,
           <<Result(8, 10, FirstRunCreated + 61, "")>> }
    ELSE { <<Result(9, 1, SecondRunCreated + 30, "ok"),
             Result(7, 5, SecondRunCreated + 31, "other run's case")>> }

\* Decoded JSON that is not of the shape the API documents: a listing with
\* one run twice, a run without name, a test case without title, a result
\* without comment, an untested result with nothing but its status.
RunRequired ==
    {"id", "name", "created_on", "passed_count", "failed_count",
     "retest_count", "untested_count", "blocked_count"}
Without(object, key) == [k \in DOMAIN object \ {key} |-> object[k]]
CompletedSmoke   == SmokeRun @@ [is_completed |-> TRUE, custom_status5_count |-> 3]
CompletedNightly == NightlyRun @@ [is_completed |-> TRUE]
OddRunListings ==
    { <<CompletedSmoke, CompletedSmoke>>,
      <<Without(CompletedSmoke, "name"), CompletedNightly>>,
      <<CompletedNightly, CompletedSmoke>> }
OddTestListing(run_id) ==
    <<TestCase(7, "Login test"), Without(TestCase(8, "Logout test"), "title"),
      TestCase(4, "Late test")>>
OddResultListings(run_id) ==
    { <<Result(7, 5, FirstRunCreated + 60, "ok"),
        Without(Result(8, 1, FirstRunCreated + 61, ""), "comment"),
        Result(4, 1, FirstRunCreated + 62, "added later")>>,
      <<[status_id |-> UNTESTED_STATUS],
        Result(7, 5, FirstRunCreated + 60, "ok")>> }

\* A response as expose_test_reports sees it: None (fetch_requested_data
\* caught a RequestException), a body json() cannot decode, or decoded JSON.
NoResponse      == [kind |-> "none", body |-> <<>>]
Undecodable     == [kind |-> "undecodable", body |-> <<>>]
JsonBody(body)  == [kind |-> "json", body |-> body]
\* decoded JSON object without the key of the listing ('runs', 'tests',
\* 'results')
JsonWithoutList == [kind |-> "json", body |-> <<>>, list |-> FALSE]


\* ------------------------------------------------------------------- state
VARIABLES
    proc,                 \* __main__: "loading", "registering", "fatal",
                          \*   "initial", "scheduler", "stopping", "stopped"
                          \*   or "crashed"
    config_source,        \* the file at CUSTOM_STATUS_CONFIG
    custom_status_config, \* what load_custom_status_config returned
    pc,                   \* where the running cycle stands; "idle" if none
    cycle,                \* cycles started so far
    now,                  \* int(today.timestamp()) of the current cycle
    custom_status_gauges, \* field_name -> series, built once at startup
    surface,              \* the registry: series -> gauge
    runs,                 \* runs.get('runs', []) of the current cycle
    idx,                  \* position of runx in runs
    cleared,              \* clear() calls made so far in this cycle
    test_id_to_title,     \* the lookup of the current run
    requests,             \* URLs requested in this cycle, in order
    responses,            \* what each request of this cycle got back
    hist,                 \* responses and final surface of the cycle before
    exit,                 \* how the last cycle ended
    clears,               \* series -> clear() calls in this cycle
    sets,                 \* series -> label tuples set in this cycle
    repeated,             \* series -> label tuples set again in this cycle
    misfire,              \* a trigger fell due while the job was running
    scrape                \* what the last scrape of /metrics observed

startup == <<config_source, custom_status_config, custom_status_gauges>>

vars == <<proc, pc, cycle, now, startup, surface, runs, idx, cleared,
          test_id_to_title, requests, responses, hist, exit, clears, sets,
          repeated, misfire, scrape>>

CustomSeries == {custom_status_gauges[f] : f \in DOMAIN custom_status_gauges}
AllSeries    == StandardSeries \cup CustomSeries

NoTitles == [t \in {} |-> ""]

\* The elements of a set in some fixed order.
RECURSIVE SeqOfSet(_)
SeqOfSet(S) ==
    IF S = {} THEN <<>>
    ELSE LET x == CHOOSE y \in S : TRUE IN <<x>> \o SeqOfSet(S \ {x})

\* Mutant of ClearOrder: test_result_info.clear() (line 102) forgotten.
ClearOrderWithoutResults ==
    <<test_run_info, test_run_passed_count, test_run_failed_count,
      test_run_retest_count, test_run_untested_count, test_run_blocked_count>>
        \o SeqOfSet(CustomSeries)

\* The clear() calls of lines 96-107 in program order (custom gauges in
\* dictionary order).
ClearOrder ==
    <<test_run_info, test_run_passed_count, test_run_failed_count,
      test_run_retest_count, test_run_untested_count, test_run_blocked_count,
      test_result_info>> \o SeqOfSet(CustomSeries)

\* __main__ up to line 225: nothing loaded yet, the standard gauges
\* exist (module gauges), no custom one does.
InitFrom(sources) ==
    /\ proc = "loading"
    /\ pc = "idle"
    /\ cycle = 0
    /\ now = StartTime
    /\ config_source \in sources
    /\ custom_status_config = NoCustomStatuses
    /\ custom_status_gauges = create_custom_status_gauges(NoCustomStatuses)
    /\ surface = [s \in StandardSeries |-> EmptyGauge]
    /\ runs = <<>>
    /\ idx = 0
    /\ cleared = 0
    /\ test_id_to_title = NoTitles
    /\ requests = <<>>
    /\ responses = <<>>
    /\ hist = [responses |-> <<>>, surface |-> surface]
    /\ exit = "none"
    /\ clears = [s \in StandardSeries |-> 0]
    /\ sets = [s \in StandardSeries |-> {}]
    /\ repeated = [s \in StandardSeries |-> {}]
    /\ misfire = FALSE
    /\ scrape = "none"

Init == InitFrom(StartupSources)

\* ---------------------------------------------------------------- startup
\* line 227: the custom status document is loaded.
LoadConfig ==
    /\ proc = "loading"
    /\ custom_status_config' = load_custom_status_config(config_source)
    /\ proc' = "registering"
    /\ UNCHANGED <<pc, cycle, now, config_source, custom_status_gauges,
                   surface, runs, idx, cleared, test_id_to_title, requests,
                   responses, hist, exit, clears, sets, repeated, misfire,
                   scrape>>

\* line 228: the custom gauges are created (none for an empty
\* configuration); the metrics server is started at line 242.
CreateGauges ==
    /\ proc = "registering"
    /\ ~Duplicated(custom_status_config)
    /\ LET gauges == create_custom_status_gauges(custom_status_config)
           series == StandardSeries \cup {gauges[f] : f \in DOMAIN gauges}
       IN  /\ custom_status_gauges' = gauges
           /\ surface' = [s \in series |-> EmptyGauge]
           /\ hist' = [responses |-> <<>>,
                       surface |-> [s \in series |-> EmptyGauge]]
           /\ clears' = [s \in series |-> 0]
           /\ sets' = [s \in series |-> {}]
           /\ repeated' = [s \in series |-> {}]
    /\ proc' = "initial"
    /\ UNCHANGED <<pc, cycle, now, config_source, custom_status_config, runs,
                   idx, cleared, test_id_to_title, requests, responses, exit,
                   misfire, scrape>>

\* line 228: Gauge(...) raises ValueError and the process ends.
CreateGaugesFails ==
    /\ proc = "registering"
    /\ Duplicated(custom_status_config)
    /\ proc' = "fatal"
    /\ UNCHANGED <<pc, cycle, now, startup, surface, runs, idx, cleared,
                   test_id_to_title, requests, responses, hist, exit, clears,
                   sets, repeated, misfire, scrape>>

\* ------------------------------------------------------------ cycle start
\* expose_test_reports is entered (line 95); today is sampled at line 109.
BeginCycle(today) ==
    /\ pc' = "clear"
    /\ cycle' = cycle + 1
    /\ now' = today
    /\ hist' = [responses |-> responses, surface |-> surface]
    /\ runs' = <<>>
    /\ idx' = 0
    /\ cleared' = 0
    /\ test_id_to_title' = NoTitles
    /\ requests' = <<>>
    /\ responses' = <<>>
    /\ exit' = "running"
    /\ clears' = [s \in AllSeries |-> 0]
    /\ sets' = [s \in AllSeries |-> {}]
    /\ repeated' = [s \in AllSeries |-> {}]
    /\ misfire' = FALSE
    /\ UNCHANGED <<proc, startup, surface, scrape>>

\* line 264: the initial collection, called from the main thread.
InitialRun ==
    /\ proc = "initial"
    /\ cycle = 0
    /\ BeginCycle(StartTime)

\* add_job (lines 252-258) gives no max_instances: the scheduler's default.
max_instances == 1
\* expose_test_reports calls in progress
RunningInstances == IF pc = "idle" THEN 0 ELSE 1

\* Mutant of MayRunJob: no limit on the instances of the job.
MayRunJobAnyway == TRUE

\* The scheduler submits a due job unless max_instances of it are running.
MayRunJob == RunningInstances < max_instances

\* lines 252-258: the cron trigger falls due and the job is run.
Trigger ==
    /\ proc = "scheduler"
    /\ cycle < MaxCycles
    /\ MayRunJob
    /\ BeginCycle(now + TriggerInterval)

\* lines 252-258: the cron trigger falls due while the job is still
\* running; the scheduler skips this run of the job.
TriggerSkipped ==
    /\ proc = "scheduler"
    /\ ~MayRunJob
    /\ misfire' = TRUE
    /\ UNCHANGED <<proc, pc, cycle, now, startup, surface, runs, idx, cleared,
                   test_id_to_title, requests, responses, hist, exit, clears,
                   sets, repeated, scrape>>

\* lines 96-107: one clear() call.
ClearGauge ==
    /\ pc = "clear"
    /\ cleared < Len(ClearOrder)
    /\ LET series == ClearOrder[cleared + 1] IN
          /\ surface' = [surface EXCEPT ![series] = EmptyGauge]
          /\ clears' = [clears EXCEPT ![series] = @ + 1]
    /\ cleared' = cleared + 1
    /\ UNCHANGED <<proc, pc, cycle, now, startup, runs, idx,
                   test_id_to_title, requests, responses, hist, misfire,
                   exit, sets, repeated, scrape>>


\* -------------------------------------------------------------- cycle end
\* What becomes of the process when expose_test_reports returns: the
\* initial call falls through to scheduler.start() (line 269); a job of the
\* scheduler just ends; shutdown() waits for the running job (line 272).
ProcAfterReturn(p) ==
    CASE p = "initial"  -> "scheduler"
      [] p = "stopping" -> "stopped"
      [] OTHER          -> p
\* ... and when it raises: nothing catches the exception of the initial
\* call (line 264); the scheduler's executor logs the exception of a job.
ProcAfterRaise(p) ==
    CASE p = "initial"  -> "crashed"
      [] p = "stopping" -> "stopped"
      [] OTHER          -> p

Return ==
    /\ pc' = "idle"
    /\ exit' = "returned"
    /\ proc' = ProcAfterReturn(proc)
Raise ==
    /\ pc' = "idle"
    /\ exit' = "raised"
    /\ proc' = ProcAfterRaise(proc)

\* fetch_requested_data(url, auth) issued, answered by resp.
Fetched(url, resp) ==
    /\ requests' = Append(requests, url)
    /\ responses' = Append(responses, resp)

\* ------------------------------------------------------------ run listing
RunsUrl ==
    <<"get_runs", PROJECT_ID, now - LOOKBACK_DAYS * SecondsPerDay, now>>
TestsUrl(run_id)   == <<"get_tests", run_id>>
ResultsUrl(run_id) == <<"get_results_for_run", run_id>>

AtRunsFetch == pc = "clear" /\ cleared = Len(ClearOrder)

\* lines 118-119: fetch_requested_data returned None and None.json() raises
\* AttributeError, which `except ValueError` does not catch.
FetchRunsFailed ==
    /\ AtRunsFetch
    /\ Fetched(RunsUrl, NoResponse)
    /\ Raise
    /\ UNCHANGED <<cycle, now, startup, surface, runs, idx, cleared,
                   test_id_to_title, hist, misfire, clears, sets, repeated,
                   scrape>>

\* lines 120-122: json() raises ValueError; logged, return.
FetchRunsUndecodable ==
    /\ AtRunsFetch
    /\ Fetched(RunsUrl, Undecodable)
    /\ Return
    /\ UNCHANGED <<cycle, now, startup, surface, runs, idx, cleared,
                   test_id_to_title, hist, misfire, clears, sets, repeated,
                   scrape>>

\* lines 118-124: a listing of `listings` decoded; the loop starts.
FetchRunsFrom(listings) ==
    /\ AtRunsFetch
    /\ \E listing \in listings :
          /\ Fetched(RunsUrl, JsonBody(listing))
          /\ runs' = listing
    /\ idx' = 1
    /\ pc' = "run"
    /\ UNCHANGED <<proc, cycle, now, startup, surface, cleared,
                   test_id_to_title, hist, misfire, exit, clears, sets,
                   repeated, scrape>>
FetchRunsDecoded == FetchRunsFrom(RunListings)
FetchRunsOdd     == FetchRunsFrom(OddRunListings)

\* line 124: runs.get('runs', []) of an object without 'runs'.
FetchRunsNoList ==
    /\ AtRunsFetch
    /\ Fetched(RunsUrl, JsonWithoutList)
    /\ runs' = <<>>
    /\ idx' = 1
    /\ pc' = "run"
    /\ UNCHANGED <<proc, cycle, now, startup, surface, cleared,
                   test_id_to_title, hist, misfire, exit, clears, sets,
                   repeated, scrape>>

\* --------------------------------------------------------------- the loop
\* Mutant of IsCompleted: a run without the flag counts as completed.
IsCompletedByDefault(runx) == Get(runx, "is_completed", TRUE)

\* line 125
IsCompleted(runx) == Get(runx, "is_completed", FALSE)

\* line 124: the listing is exhausted; the function returns.
LoopDone ==
    /\ pc = "run"
    /\ idx > Len(runs)
    /\ Return
    /\ UNCHANGED <<cycle, now, startup, surface, runs, idx, cleared,
                   test_id_to_title, requests, responses, hist, misfire,
                   clears, sets, repeated, scrape>>

\* line 125: a run that is not completed is passed over.
SkipRun ==
    /\ pc = "run"
    /\ idx <= Len(runs)
    /\ ~IsCompleted(runs[idx])
    /\ idx' = idx + 1
    /\ UNCHANGED <<proc, pc, cycle, now, startup, surface, runs, cleared,
                   test_id_to_title, requests, responses, hist, misfire,
                   exit, clears, sets, repeated, scrape>>

\* Mutant of RunSamples: the blocked count of the run is not set.
RunSamplesWithoutBlocked(gauges, runx, created_datex) ==
    [s \in StandardSeries \cup {gauges[f] : f \in DOMAIN gauges} |->
        IF s = test_run_info
        THEN {[labels |-> RunInfoLabels(runx, created_datex), value |-> 1]}
        ELSE IF s = test_run_blocked_count
        THEN {}
        ELSE IF s \in StandardCountSeries
        THEN {[labels |-> RunLabels(runx, created_datex),
               value |-> runx[CountField(s)]]}
        ELSE {[labels |-> RunLabels(runx, created_datex), value |-> runx[f]] :
                f \in {g \in DOMAIN gauges : gauges[g] = s /\ g \in DOMAIN runx}}]

\* lines 128-155: the samples set for one completed run, series -> samples.
RunSamples(gauges, runx, created_datex) ==
    [s \in StandardSeries \cup {gauges[f] : f \in DOMAIN gauges} |->
        IF s = test_run_info
        THEN {[labels |-> RunInfoLabels(runx, created_datex), value |-> 1]}
        ELSE IF s \in StandardCountSeries
        THEN {[labels |-> RunLabels(runx, created_datex),
               value |-> runx[CountField(s)]]}
        ELSE {[labels |-> RunLabels(runx, created_datex), value |-> runx[f]] :
                f \in {g \in DOMAIN gauges : gauges[g] = s /\ g \in DOMAIN runx}}]

\* gauge.labels(...).set(...) for every sample of `samples`
SetAll(surf, samples) ==
    [s \in DOMAIN surf |->
        {old \in surf[s] : \A new \in samples[s] : old.labels # new.labels}
            \cup samples[s]]
Noted(log, samples) ==
    [s \in DOMAIN log |-> log[s] \cup {x.labels : x \in samples[s]}]
\* the label tuples of `samples` that were already set in this cycle
Renoted(again, log, samples) ==
    [s \in DOMAIN again |->
        again[s] \cup ({x.labels : x \in samples[s]} \cap log[s])]

\* Mutant of TitlesAtRunStart: the lookup is kept from run to run.
TitlesKept(titles) == titles

\* line 157: test_id_to_title = {}
TitlesAtRunStart(titles) == NoTitles

\* lines 126-133: every runx[...] subscript finds its key.
HasRunFields(runx) == RunRequired \subseteq DOMAIN runx

\* lines 126-133: a subscript of runx raises KeyError, before the first
\* set() of the run.
PublishRunKeyError ==
    /\ pc = "run"
    /\ idx <= Len(runs)
    /\ IsCompleted(runs[idx])
    /\ ~HasRunFields(runs[idx])
    /\ Raise
    /\ UNCHANGED <<cycle, now, startup, surface, runs, idx, cleared,
                   test_id_to_title, requests, responses, hist, misfire,
                   clears, sets, repeated, scrape>>

\* lines 126-157 with created_datex taken from `timestamp`
PublishRunAt(timestamp) ==
    /\ pc = "run"
    /\ idx <= Len(runs)
    /\ IsCompleted(runs[idx])
    /\ HasRunFields(runs[idx])
    /\ LET samples == RunSamples(custom_status_gauges, runs[idx],
                                 format_timestamp(timestamp))
       IN  /\ surface' = SetAll(surface, samples)
           /\ sets' = Noted(sets, samples)
           /\ repeated' = Renoted(repeated, sets, samples)
    /\ test_id_to_title' = TitlesAtRunStart(test_id_to_title)
    /\ pc' = "get_tests"
    /\ UNCHANGED <<proc, cycle, now, startup, runs, idx, cleared, requests,
                   responses, hist, misfire, exit, clears, scrape>>

\* Mutant of PublishRun: created_datex formatted from the cycle's clock.
PublishRunDatedNow == PublishRunAt(now)

\* lines 126-157: run-info, the five counts and the custom counts of runx.
PublishRun == idx <= Len(runs) /\ PublishRunAt(runs[idx].created_on)


\* ------------------------------------------------------------- test cases
\* lines 165-167: the lookup built from the listing, a later entry of the
\* same id overwriting an earlier one.
TitleLookup(tests) ==
    [id \in {tests[i].id : i \in 1..Len(tests)} |->
        LET last == CHOOSE i \in 1..Len(tests) :
                       /\ tests[i].id = id
                       /\ \A j \in (i + 1)..Len(tests) : tests[j].id # id
        IN  tests[last].title]

\* Mutant of NextRun: the loop takes the same run again.
NextRunAgain ==
    /\ idx' = idx
    /\ pc' = "run"

\* `continue` (lines 170 and 192) and the end of the loop body
NextRun ==
    /\ idx' = idx + 1
    /\ pc' = "run"

\* lines 162-163: None.json() raises AttributeError out of the function.
FetchTestsFailed ==
    /\ pc = "get_tests"
    /\ Fetched(TestsUrl(runs[idx].id), NoResponse)
    /\ Raise
    /\ UNCHANGED <<cycle, now, startup, surface, runs, idx, cleared,
                   test_id_to_title, hist, misfire, clears, sets, repeated,
                   scrape>>

\* Mutant of FetchTestsUndecodable: the `continue` of line 170 is missing
\* and the results of the run are fetched all the same.
FetchTestsUndecodableGoesOn ==
    /\ pc = "get_tests"
    /\ Fetched(TestsUrl(runs[idx].id), Undecodable)
    /\ pc' = "get_results"
    /\ UNCHANGED <<proc, cycle, now, startup, surface, runs, idx, cleared,
                   test_id_to_title, hist, misfire, exit, clears, sets,
                   repeated, scrape>>

\* lines 168-170: ValueError; logged, continue with the next run.
FetchTestsUndecodable ==
    /\ pc = "get_tests"
    /\ Fetched(TestsUrl(runs[idx].id), Undecodable)
    /\ NextRun
    /\ UNCHANGED <<proc, cycle, now, startup, surface, runs, cleared,
                   test_id_to_title, hist, misfire, exit, clears, sets,
                   repeated, scrape>>

\* lines 162-167: the test cases decoded; the lookup is filled.
FetchTestsDecoded ==
    /\ pc = "get_tests"
    /\ LET tests == TestListing(runs[idx].id) IN
          /\ Fetched(TestsUrl(runs[idx].id), JsonBody(tests))
          /\ test_id_to_title' = TitleLookup(tests) @@ test_id_to_title
    /\ pc' = "get_results"
    /\ UNCHANGED <<proc, cycle, now, startup, surface, runs, idx, cleared,
                   hist, misfire, exit, clears, sets, repeated, scrape>>

\* line 165: test_cases['tests'] of an object without 'tests' raises
\* KeyError, which `except ValueError` does not catch.
FetchTestsNoList ==
    /\ pc = "get_tests"
    /\ Fetched(TestsUrl(runs[idx].id), JsonWithoutList)
    /\ Raise
    /\ UNCHANGED <<cycle, now, startup, surface, runs, idx, cleared,
                   test_id_to_title, hist, misfire, clears, sets, repeated,
                   scrape>>

\* the positions of the objects of `list` that lack one of `keys`
Lacking(list, keys) ==
    {i \in 1..Len(list) : ~(keys \subseteq DOMAIN list[i])}
First(positions) == CHOOSE i \in positions : \A j \in positions : i <= j

\* lines 165-167: test_case['id'] or test_case['title'] raises KeyError;
\* the test cases before that one are in the lookup.
FetchTestsOdd ==
    /\ pc = "get_tests"
    /\ LET tests == OddTestListing(runs[idx].id)
           bad   == Lacking(tests, {"id", "title"})
       IN  /\ bad # {}
           /\ Fetched(TestsUrl(runs[idx].id), JsonBody(tests))
           /\ test_id_to_title'
                 = TitleLookup(SubSeq(tests, 1, First(bad) - 1)) @@ test_id_to_title
    /\ Raise
    /\ UNCHANGED <<cycle, now, startup, surface, runs, idx, cleared,
                   hist, misfire, clears, sets, repeated, scrape>>

\* ---------------------------------------------------------------- results
\* Mutant of Published: the status filter of line 179 is missing.
PublishedWhatever(result) == TRUE

\* line 179
Published(result) == result.status_id # UNTESTED_STATUS

\* lines 178-189: the samples set for the results of one run.
ResultSamples(series, run_id, titles, results) ==
    [s \in series |->
        IF s = test_result_info
        THEN {[labels |-> ResultLabels(run_id, titles, results[i]), value |-> 1] :
                i \in {j \in 1..Len(results) : Published(results[j])}}
        ELSE {}]

\* lines 175-176: None.json() raises AttributeError out of the function.
FetchResultsFailed ==
    /\ pc = "get_results"
    /\ Fetched(ResultsUrl(runs[idx].id), NoResponse)
    /\ Raise
    /\ UNCHANGED <<cycle, now, startup, surface, runs, idx, cleared,
                   test_id_to_title, hist, misfire, clears, sets, repeated,
                   scrape>>

\* Mutant of FetchResultsUndecodable: the request is made again.
FetchResultsUndecodableRetried ==
    /\ pc = "get_results"
    /\ Fetched(ResultsUrl(runs[idx].id), Undecodable)
    /\ UNCHANGED <<proc, pc, idx, cycle, now, startup, surface, runs, cleared,
                   test_id_to_title, hist, misfire, exit, clears, sets,
                   repeated, scrape>>

\* lines 190-192: ValueError; logged, continue with the next run.
FetchResultsUndecodable ==
    /\ pc = "get_results"
    /\ Fetched(ResultsUrl(runs[idx].id), Undecodable)
    /\ NextRun
    /\ UNCHANGED <<proc, cycle, now, startup, surface, runs, cleared,
                   test_id_to_title, hist, misfire, exit, clears, sets,
                   repeated, scrape>>

\* lines 175-189: the results decoded and published.
FetchResultsDecoded ==
    /\ pc = "get_results"
    /\ \E results \in ResultListings(runs[idx].id) :
          LET samples == ResultSamples(AllSeries, runs[idx].id,
                                       test_id_to_title, results)
          IN  /\ Fetched(ResultsUrl(runs[idx].id), JsonBody(results))
              /\ surface' = SetAll(surface, samples)
              /\ sets' = Noted(sets, samples)
              /\ repeated' = Renoted(repeated, sets, samples)
    /\ NextRun
    /\ UNCHANGED <<proc, cycle, now, startup, runs, cleared,
                   test_id_to_title, hist, misfire, exit, clears, scrape>>

\* line 178: test_results.get('results', []) of an object without
\* 'results'.
FetchResultsNoList ==
    /\ pc = "get_results"
    /\ Fetched(ResultsUrl(runs[idx].id), JsonWithoutList)
    /\ NextRun
    /\ UNCHANGED <<proc, cycle, now, startup, surface, runs, cleared,
                   test_id_to_title, hist, misfire, exit, clears, sets,
                   repeated, scrape>>

\* lines 179-189: the subscripts of `result` that are evaluated find
\* their keys.
HasResultFields(result) ==
    /\ "status_id" \in DOMAIN result
    /\ Published(result)
          => {"test_id", "created_on", "comment"} \subseteq DOMAIN result

\* lines 178-189: the results are published one by one until a subscript
\* of one raises KeyError, which `except ValueError` does not catch.
FetchResultsOdd ==
    /\ pc = "get_results"
    /\ \E results \in OddResultListings(runs[idx].id) :
          LET bad     == {i \in 1..Len(results) : ~HasResultFields(results[i])}
              done    == IF bad = {} THEN results
                         ELSE SubSeq(results, 1, First(bad) - 1)
              samples == ResultSamples(AllSeries, runs[idx].id,
                                       test_id_to_title, done)
          IN  /\ Fetched(ResultsUrl(runs[idx].id), JsonBody(results))
              /\ surface' = SetAll(surface, samples)
              /\ sets' = Noted(sets, samples)
              /\ repeated' = Renoted(repeated, sets, samples)
              /\ IF bad = {}
                 THEN NextRun /\ UNCHANGED <<proc, exit>>
                 ELSE Raise /\ UNCHANGED idx
    /\ UNCHANGED <<cycle, now, startup, runs, cleared,
                   test_id_to_title, hist, misfire, clears, scrape>>

\* ------------------------------------------------- the rest of the process
\* lines 268-272: KeyboardInterrupt or SystemExit in scheduler.start();
\* shutdown() lets a running job finish.
Interrupt ==
    /\ proc = "scheduler"
    /\ proc' = IF pc = "idle" THEN "stopped" ELSE "stopping"
    /\ UNCHANGED <<pc, cycle, now, startup, surface, runs, idx, cleared,
                   test_id_to_title, requests, responses, hist, misfire,
                   exit, clears, sets, repeated, scrape>>

\* The surface as the last cycle that ended left it.
LastSnapshot == IF pc = "idle" THEN surface ELSE hist.surface

\* line 242: the metrics server thread answers a scrape with the registry
\* as it is at that moment.
Scrape ==
    /\ proc \in {"initial", "scheduler", "stopping"}
    /\ scrape' = IF surface = LastSnapshot THEN "snapshot"
                 ELSE IF \A s \in AllSeries : surface[s] = EmptyGauge
                      THEN "empty" ELSE "partial"
    /\ UNCHANGED <<proc, pc, cycle, now, startup, surface, runs, idx,
                   cleared, test_id_to_title, requests, responses, hist,
                   misfire, exit, clears, sets, repeated>>

Next ==
    \/ LoadConfig \/ CreateGauges
    \/ InitialRun \/ Trigger \/ TriggerSkipped \/ ClearGauge
    \/ FetchRunsFailed \/ FetchRunsUndecodable \/ FetchRunsDecoded
    \/ LoopDone \/ SkipRun \/ PublishRun
    \/ FetchTestsFailed \/ FetchTestsUndecodable \/ FetchTestsDecoded
    \/ FetchResultsFailed \/ FetchResultsUndecodable \/ FetchResultsDecoded
    \/ Interrupt \/ Scrape

Spec == Init /\ [][Next]_vars

\* The collection cycles alone, with decoded responses of any shape.
NextOdd ==
    \/ LoadConfig \/ CreateGauges
    \/ InitialRun \/ Trigger \/ ClearGauge
    \/ FetchRunsFailed \/ FetchRunsUndecodable \/ FetchRunsDecoded
    \/ FetchRunsOdd \/ FetchRunsNoList
    \/ LoopDone \/ SkipRun \/ PublishRun \/ PublishRunKeyError
    \/ FetchTestsFailed \/ FetchTestsUndecodable \/ FetchTestsDecoded
    \/ FetchTestsNoList \/ FetchTestsOdd
    \/ FetchResultsFailed \/ FetchResultsUndecodable \/ FetchResultsDecoded
    \/ FetchResultsNoList \/ FetchResultsOdd
SpecOdd == Init /\ [][NextOdd]_vars

\* The startup alone, for every custom status document.
InitLoad == InitFrom(ConfigSources)
NextLoad == LoadConfig \/ CreateGauges \/ CreateGaugesFails
SpecLoad == InitLoad /\ [][NextLoad]_vars


\* ================================================================ properties
CycleEnded == pc = "idle" /\ cycle > 0
Positions == 1..Len(runs)
Asked(url) == \E i \in 1..Len(requests) : requests[i] = url
\* the request for url was made and answered with one of `kinds`
Answered(url, kinds) ==
    \E i \in 1..Len(requests) : requests[i] = url /\ responses[i].kind \in kinds
Failures == {"none", "undecodable"}
PointsOf(run_id, series) == {x \in surface[series] : x.labels.run_id = run_id}
SurfaceEmpty == \A s \in AllSeries : surface[s] = {}
FlaggedCompleted(runx) == "is_completed" \in DOMAIN runx /\ runx.is_completed
\* run-info, the five standard counts and the configured custom counts of
\* runx are in the surface, with the values of the payload
SummaryPresent(runx) ==
    /\ \E x \in PointsOf(runx.id, test_run_info) :
          /\ x.value = 1
          /\ x.labels.name = runx.name
          /\ x.labels.created_date = format_timestamp(runx.created_on)
    /\ \A s \in StandardCountSeries :
          \E x \in PointsOf(runx.id, s) : x.value = runx[CountField(s)]
    /\ \A f \in DOMAIN custom_status_gauges \cap DOMAIN runx :
          \E x \in PointsOf(runx.id, custom_status_gauges[f]) : x.value = runx[f]

\* C1 (as claimed): whatever a scrape observes, during a cycle or between
\* two, is the complete surface the last ended cycle left; never an empty or
\* partly filled one in between.
C1_ScrapeSeesLastSnapshot == scrape \in {"none", "snapshot"}

\* C2: in a cycle every series is cleared exactly once and before anything
\* is set; so when the cycle has ended every data point was set in that
\* cycle and belongs to a run of the current listing (a run only an earlier
\* cycle published has no point left).
C2_ClearedOnceBeforeSet ==
    /\ \A s \in AllSeries : clears[s] <= 1
    /\ (cycle > 0 /\ pc # "clear") => \A s \in AllSeries : clears[s] = 1
    /\ (\E s \in AllSeries : sets[s] # {}) => \A s \in AllSeries : clears[s] = 1
    /\ CycleEnded =>
          \A s \in AllSeries : \A x \in surface[s] :
              /\ x.labels \in sets[s]
              /\ \E i \in Positions : runs[i].id = x.labels.run_id
\* a run the cycle before published is gone from the listing, while the
\* cycle that just ended published another one
C2_Witness ==
    /\ CycleEnded
    /\ cycle >= 2
    /\ ~SurfaceEmpty
    /\ \E x \in hist.surface[test_result_info] :
          \A i \in Positions : runs[i].id # x.labels.run_id

\* C3 (as claimed): when the run listing fails outright or cannot be
\* decoded, the cycle returns normally and leaves the surface empty.
C3_ListingFailureReturnsEmpty ==
    (CycleEnded /\ Len(responses) >= 1 /\ responses[1].kind \in Failures)
        => (exit = "returned" /\ SurfaceEmpty)

\* C4 (as claimed): when the test-case or the result listing of a completed
\* run fails, every completed run after it in the listing still gets its
\* summary entries and its own test-case request.
C4_LaterRunsStillProcessed ==
    CycleEnded =>
        \A i, j \in Positions :
            ( /\ i < j
              /\ FlaggedCompleted(runs[i])
              /\ FlaggedCompleted(runs[j])
              /\ \/ Answered(TestsUrl(runs[i].id), Failures)
                 \/ Answered(ResultsUrl(runs[i].id), Failures) )
            => (SummaryPresent(runs[j]) /\ Asked(TestsUrl(runs[j].id)))

\* C5: when the test-case listing of a completed run R fails, then after
\* the cycle R's run-info, five standard counts and configured custom counts
\* are present and no per-result entry carries R's id.
C5_SummaryKeptWithoutResults ==
    CycleEnded =>
        \A i \in Positions :
            (FlaggedCompleted(runs[i]) /\ Answered(TestsUrl(runs[i].id), Failures))
            => /\ SummaryPresent(runs[i])
               /\ PointsOf(runs[i].id, test_result_info) = {}
               /\ ~Asked(ResultsUrl(runs[i].id))
\* the test cases of a completed run with a configured custom count could
\* not be decoded, and the cycle went on to its end
C5_Witness ==
    /\ CycleEnded
    /\ exit = "returned"
    /\ \E i \in Positions :
          /\ FlaggedCompleted(runs[i])
          /\ Answered(TestsUrl(runs[i].id), {"undecodable"})
          /\ DOMAIN custom_status_gauges \cap DOMAIN runs[i] # {}

\* C6 (as claimed): a transport error on any API call of any cycle, the
\* initial one included, leaves the process running.
C6_TransportErrorNotFatal ==
    (\E i \in 1..Len(responses) : responses[i].kind = "none") => proc # "crashed"

\* C7: no per-result entry ever has status 10; every result with another
\* status of a run whose results were decoded has its entry; the untested
\* count of a run is the one of the Run object.
C7_UntestedResultsFiltered ==
    /\ \A x \in surface[test_result_info] : x.labels.status_id # 10
    /\ \A i \in 1..Len(requests) :
          (requests[i][1] = "get_results_for_run" /\ responses[i].kind = "json")
          => \A k \in 1..Len(responses[i].body) :
                LET result == responses[i].body[k] IN
                result.status_id # 10 =>
                    \E x \in PointsOf(requests[i][2], test_result_info) :
                        /\ x.value = 1
                        /\ x.labels.test_id = result.test_id
                        /\ x.labels.status_id = result.status_id
                        /\ x.labels.comment = result.comment
                        /\ x.labels.created_date = format_timestamp(result.created_on)
    /\ pc # "clear" =>
          \A x \in surface[test_run_untested_count] :
              \E i \in Positions : /\ runs[i].id = x.labels.run_id
                                   /\ x.value = runs[i].untested_count
\* a decoded result listing held an untested result and another one, for a
\* run whose untested count differs from the number of untested results
C7_Witness ==
    /\ CycleEnded
    /\ \E i \in 1..Len(requests) :
          /\ requests[i][1] = "get_results_for_run"
          /\ responses[i].kind = "json"
          /\ \E k \in 1..Len(responses[i].body) : responses[i].body[k].status_id = 10
          /\ \E k \in 1..Len(responses[i].body) : responses[i].body[k].status_id # 10
          /\ \E x \in PointsOf(requests[i][2], test_run_untested_count) : x.value = 2

\* C8: a listed run whose is_completed is false or absent has no entry in
\* any series and no test-case or result request.
C8_OpenRunsIgnored ==
    pc # "clear" =>
        \A i \in Positions :
            ~FlaggedCompleted(runs[i])
            => /\ \A s \in AllSeries : PointsOf(runs[i].id, s) = {}
               /\ ~Asked(TestsUrl(runs[i].id))
               /\ ~Asked(ResultsUrl(runs[i].id))
\* a cycle went through a listing with a run that has no flag and a
\* completed run
C8_Witness ==
    /\ CycleEnded
    /\ exit = "returned"
    /\ \E i, j \in Positions :
          /\ "is_completed" \notin DOMAIN runs[i]
          /\ FlaggedCompleted(runs[j])
          /\ PointsOf(runs[j].id, test_run_info) # {}

\* C9 (as claimed): after a cycle, a custom count entry exists for a field
\* and a completed run of the listing exactly if the field is configured and
\* in the run's payload, and its value is the payload's.
CustomFields == {"custom_status5_count", "custom_status7_count"}
CustomPoints(f, runx) ==
    IF f \in DOMAIN custom_status_gauges
    THEN PointsOf(runx.id, custom_status_gauges[f])
    ELSE {}
C9_CustomCountsMatchPayload ==
    CycleEnded =>
        \A i \in Positions : \A f \in CustomFields :
            FlaggedCompleted(runs[i]) =>
                /\ CustomPoints(f, runs[i]) # {}
                      <=> (f \in DOMAIN custom_status_gauges /\ f \in DOMAIN runs[i])
                /\ \A x \in CustomPoints(f, runs[i]) : x.value = runs[i][f]

\* C10: two consecutive cycles that got the same responses leave the same
\* surface.
C10_SameResponsesSameSurface ==
    (CycleEnded /\ cycle >= 2 /\ hist.responses = responses)
        => surface = hist.surface
\* two cycles in a row got the same listing, the same failure for one run
\* and the same results for another
C10_Witness ==
    /\ CycleEnded
    /\ cycle >= 2
    /\ hist.responses = responses
    /\ surface[test_result_info] # {}
    /\ \E i \in 1..Len(responses) : responses[i].kind = "undecodable"

\* C11 (as claimed): after a cycle that made all its requests without a
\* failure, a listed run has a run-info entry if it is completed and its
\* created_on lies in [now - LOOKBACK_DAYS days, now], and has none if its
\* created_on lies outside of it, whatever runs the listing holds.
InWindow(created_on) ==
    /\ now - LOOKBACK_DAYS * SecondsPerDay <= created_on
    /\ created_on <= now
C11_InfoExactlyForRunsInWindow ==
    (CycleEnded /\ exit = "returned"
        /\ \A i \in 1..Len(responses) : responses[i].kind = "json")
    => \A i \in Positions :
          /\ (FlaggedCompleted(runs[i]) /\ InWindow(runs[i].created_on))
                => PointsOf(runs[i].id, test_run_info) # {}
          /\ ~InWindow(runs[i].created_on)
                => PointsOf(runs[i].id, test_run_info) = {}

\* ------------------------------------------------ custom status properties
Loaded == proc # "loading"
Entries == config_source.custom_statuses
FieldNameOf(status) == Get(status, "field_name", "")
\* the positions of the document's entries that give field_name
EntriesNaming(field_name) ==
    {k \in 1..Len(Entries) : FieldNameOf(Entries[k]) = field_name}
Earliest(positions) == CHOOSE k \in positions : \A l \in positions : k <= l

\* C12 (as claimed): when the document holds two entries with the same
\* field name, the mapping returned holds for that field name the
\* definition of the earlier entry; the later one is ignored.
C12_EarlierDefinitionKept ==
    Loaded =>
        \A f \in DOMAIN custom_status_config :
            custom_status_config[f]
                = StatusDefinition(Entries[Earliest(EntriesNaming(f))], f)

\* C13 (as claimed): create_custom_status_gauges fails exactly when a
\* derived series name test_run_{metric_name}_count is the name of a
\* standard series; for every other configuration, definitions with distinct
\* field names and one metric name among them, it returns one series per
\* field name.
CollidesWithStandard ==
    \E f \in DOMAIN custom_status_config :
        CountSeries(custom_status_config[f].metric_name) \in StandardSeries
C13_FailsOnlyOnStandardCollision ==
    proc \in {"initial", "fatal"} =>
        /\ proc = "fatal" <=> CollidesWithStandard
        /\ proc = "initial"
              => DOMAIN custom_status_gauges = DOMAIN custom_status_config

\* C17: load_custom_status_config always returns; it returns the empty
\* mapping for an absent file, for a file that does not parse and for a
\* document with an empty list, and for any other document a mapping with
\* exactly the field names of the entries that have one.
C17_LoadNeverRaises ==
    [][proc = "loading" =>
        /\ proc' = "registering"
        /\ (config_source.kind \in {"absent", "malformed"} \/ Entries = <<>>)
              => custom_status_config' = NoCustomStatuses
        /\ config_source.kind = "json"
              => DOMAIN custom_status_config'
                    = {FieldNameOf(Entries[k]) : k \in 1..Len(Entries)} \ {""}
      ]_vars
\* a document with an entry without field name before one with a field
\* name was loaded
C17_Witness ==
    /\ proc = "registering"
    /\ Len(Entries) = 2
    /\ "field_name" \notin DOMAIN Entries[1]
    /\ FieldNameOf(Entries[2]) # ""
    /\ DOMAIN custom_status_config = {FieldNameOf(Entries[2])}

\* C18 (as claimed): the definition loaded for a field name comes from an
\* entry of that name, keeps the entry's metric_name and description when
\* given, and otherwise has as metric_name the field name without a trailing
\* "_count" and as description "Number of {metric_name} tests", with the
\* metric_name the definition has.
StripSuffix(pieces, suffix) ==
    IF pieces # <<>> /\ pieces[Len(pieces)] = suffix
    THEN SubSeq(pieces, 1, Len(pieces) - 1)
    ELSE pieces
AsClaimed(definition, status, field_name) ==
    /\ definition.metric_name
          = Get(status, "metric_name", StripSuffix(Pieces(field_name), "_count"))
    /\ definition.description
          = Get(status, "description",
                <<"Number of ">> \o definition.metric_name \o <<" tests">>)
C18_GivenKeptDefaultsDerived ==
    Loaded =>
        \A f \in DOMAIN custom_status_config :
            \E k \in EntriesNaming(f) :
                AsClaimed(custom_status_config[f], Entries[k], f)

\* ------------------------------------------------------ cycle properties
\* C15: a cycle starts only when no cycle is in progress, also when the
\* trigger falls due while a cycle is still running: no two executions of
\* expose_test_reports overlap.
C15_CyclesNeverOverlap == [][cycle' # cycle => pc = "idle"]_vars
\* the trigger fell due during a scheduled cycle, which is still running
C15_Witness ==
    /\ misfire
    /\ cycle >= 2
    /\ pc \notin {"idle", "clear"}

\* C14 (as claimed): a cycle whose requests were all answered with
\* decodable JSON, of whatever shape, does not raise and requests the test
\* cases of every completed run of the listing.
C14_ShapeSurprisesDefaulted ==
    (CycleEnded /\ \A i \in 1..Len(responses) : responses[i].kind = "json")
        => /\ exit = "returned"
           /\ \A i \in Positions :
                 FlaggedCompleted(runs[i]) => Asked(TestsUrl(runs[i].id))

\* C16 (as claimed): in a cycle, whatever the listing holds, no label
\* tuple of run-info, of a standard count or of a custom count is set a
\* second time.
PerRunSeries == AllSeries \ {test_result_info}
NothingSetAgain == \A s \in PerRunSeries : repeated[s] = {}
C16_PerRunSeriesSetOnce == NothingSetAgain
\* C16 (amended): in a cycle whose listing holds no run id twice, no label
\* tuple of run-info, of a standard count or of a custom count is set a
\* second time.
DistinctIds == \A i, j \in Positions : i # j => runs[i].id # runs[j].id
C16_PerRunSeriesSetOnceForDistinctIds == DistinctIds => NothingSetAgain
\* a cycle published two completed runs of different ids, custom count
\* included
C16_Witness ==
    /\ CycleEnded
    /\ Len(runs) = 2
    /\ DistinctIds
    /\ \A i \in Positions : PointsOf(runs[i].id, test_run_info) # {}
    /\ \E f \in DOMAIN custom_status_gauges :
          \E i \in Positions :
              PointsOf(runs[i].id, custom_status_gauges[f]) # {}

\* C19: the requests of a cycle are: first the one run listing, never
\* again; then, in the order of the listing, for a completed run whose
\* summary is set one test-case request and, right after it and only when it
\* was answered with decodable JSON, one result request; no URL is requested
\* twice in the cycle.
Requested == 1..Len(requests)
PositionOf(run_id) == CHOOSE p \in Positions : runs[p].id = run_id
C19_SequentialNoRetry ==
    /\ (cycle > 0 /\ pc \notin {"clear"}) => Len(requests) >= 1
    /\ \A i \in Requested : requests[i][1] = "get_runs" <=> i = 1
    /\ \A i, j \in Requested : i # j => requests[i] # requests[j]
    /\ \A i \in Requested :
          requests[i][1] \in {"get_tests", "get_results_for_run"}
          => /\ \E p \in Positions : runs[p].id = requests[i][2]
             /\ FlaggedCompleted(runs[PositionOf(requests[i][2])])
             /\ SummaryPresent(runs[PositionOf(requests[i][2])])
    /\ \A i \in Requested :
          requests[i][1] = "get_results_for_run"
          => /\ i > 1
             /\ requests[i - 1] = TestsUrl(requests[i][2])
             /\ responses[i - 1].kind = "json"
    /\ \A i, j \in Requested :
          (i < j /\ requests[i][1] = "get_tests" /\ requests[j][1] = "get_tests")
          => PositionOf(requests[i][2]) < PositionOf(requests[j][2])
\* a cycle made four requests: the listing, then for the first run test
\* cases and results, then for the second run test cases that failed to
\* decode, and no results for it
C19_Witness ==
    /\ CycleEnded
    /\ Len(requests) = 4
    /\ requests[2][1] = "get_tests"
    /\ requests[3][1] = "get_results_for_run"
    /\ requests[4][1] = "get_tests"
    /\ responses[4].kind = "undecodable"

\* C20: the title of every result entry published in the cycle is the
\* title the test-case listing of its own run gives for its test id, or
\* "Unknown Title" when that listing has no such test id.
C20_TitleFromOwnRun ==
    \A labels \in sets[test_result_info] :
        \E i \in Requested :
            /\ requests[i] = TestsUrl(labels.run_id)
            /\ responses[i].kind = "json"
            /\ LET cases == responses[i].body
                   hits  == {k \in 1..Len(cases) : cases[k].id = labels.test_id}
               IN  IF hits = {} THEN labels.title = "Unknown Title"
                   ELSE \E k \in hits : labels.title = cases[k].title
\* a result of the second run has a test id that only the first run's
\* test-case listing knows, and is published with "Unknown Title"
C20_Witness ==
    /\ CycleEnded
    /\ \E labels \in sets[test_result_info] :
          /\ labels.title = "Unknown Title"
          /\ \E i \in Requested :
                /\ requests[i][1] = "get_tests"
                /\ requests[i][2] # labels.run_id
                /\ responses[i].kind = "json"
                /\ \E k \in 1..Len(responses[i].body) :
                      responses[i].body[k].id = labels.test_id

\* C21: when a cycle has ended, by return or by an exception, every run id
\* of a result entry and of a custom count entry of the surface is the id
\* of a listed completed run that has a run-info entry and an entry in each
\* of the five standard count series, with the counts of its payload.
ReferencedRunIds ==
    {x.labels.run_id : x \in surface[test_result_info]}
        \cup UNION {{x.labels.run_id : x \in surface[custom_status_gauges[f]]} :
                        f \in DOMAIN custom_status_gauges}
HasStandardEntries(runx) ==
    /\ HasRunFields(runx)
    /\ \E x \in PointsOf(runx.id, test_run_info) :
          x.labels.name = runx.name
    /\ \A s \in StandardCountSeries :
          \E x \in PointsOf(runx.id, s) : x.value = runx[CountField(s)]
C21_SnapshotReferentiallyConsistent ==
    CycleEnded =>
        \A run_id \in ReferencedRunIds :
            \E i \in Positions :
                /\ runs[i].id = run_id
                /\ FlaggedCompleted(runs[i])
                /\ HasStandardEntries(runs[i])
\* a cycle was cut short by an exception after it had published a custom
\* count and a result of a run
C21_Witness ==
    /\ CycleEnded
    /\ exit = "raised"
    /\ surface[test_result_info] # {}
    /\ \E f \in DOMAIN custom_status_gauges :
          surface[custom_status_gauges[f]] # {}

====
